---- MODULE Spec2Model ----
(***************************************************************************)
(* Webhook leaderboard server: signature verification, webhook processing, *)
(* the in-memory leaderboard store, the server-sent-events broadcaster and *)
(* the provider-B token cache.                                             *)
(*                                                                         *)
(* The repository holds three generations of the POST /webhook handler:    *)
(*   "raw"  : src/unnamed/part_000:85-199 (HMAC only, express.raw)         *)
(*   "dual" : src/server.js:112-262       (remote verification + HMAC)     *)
(*   "text" : src/server.js:402-448       (no verification, express.text)  *)
(* variant selects the handler the process runs.                           *)
(***************************************************************************)
EXTENDS Integers, Sequences, FiniteSets, TLC

VARIABLES
  variant,               \* which generation of the handler is deployed
  env,                   \* process.env: the configuration read by the handlers
  now,                   \* Date.now(), in milliseconds
  leaderboard,           \* the Map, as its entries in insertion order
  clients,               \* the clients array of open SSE responses
  inbox,                 \* per connection, the frames written to it
  broken,                \* connections whose socket has failed
  cachedPayPalToken,     \* server.js:12
  paypalTokenExpiresAt,  \* server.js:13
  cachedToken,           \* server.js:10, part_000:4
  tokenExpiresAt,        \* server.js:11, part_000:5 (tokenExpiresAtMs)
  counts,                \* per GET /purchases-count slot, the handler's position
  counted,               \* number of GET /purchases-count requests received
  reqs,                  \* per request slot, the handler's position and locals
  started,               \* number of POST /webhook requests received so far
  subs,                  \* number of GET /events requests received so far
  todo,                  \* store harness: bump calls still to be made
  applied,               \* store harness: bump calls made, in order
  snapshot               \* store harness: last top20() call, with its input

vars == <<variant, env, now, leaderboard, clients, inbox, broken, cachedPayPalToken,
          paypalTokenExpiresAt, cachedToken, tokenExpiresAt, counts, counted,
          reqs, started, subs, todo, applied, snapshot>>

webVars == <<variant, env, now, clients, inbox, broken, cachedPayPalToken,
             paypalTokenExpiresAt, cachedToken, tokenExpiresAt, counts,
             counted, reqs, started, subs>>

(***************************************************************************)
(* Bounds                                                                  *)
(***************************************************************************)
MaxBumps == 3       \* length of the exhaustively drawn bump sequences
NumNames == 22      \* distinct names in the long bump runs (more than TopN)

(***************************************************************************)
(* JavaScript values                                                       *)
(***************************************************************************)
Undef == [t |-> "undefined"]
Null == [t |-> "null"]
Num(n) == [t |-> "num", n |-> n]
Str(s) == [t |-> "str", s |-> s]
Obj(f) == [t |-> "obj", f |-> f]
Arr(a) == [t |-> "arr", a |-> a]
NaN == [t |-> "nan"]

\* Truthiness, as tested by ||, && and !.
Truthy(v) ==
  CASE v.t = "undefined" -> FALSE
    [] v.t = "null" -> FALSE
    [] v.t = "nan" -> FALSE
    [] v.t = "num" -> v.n # 0
    [] v.t = "str" -> v.s # ""
    [] OTHER -> TRUE

\* a || b
Or(a, b) == IF Truthy(a) THEN a ELSE b

\* a ?? b
Nullish(a, b) == IF a.t \in {"undefined", "null"} THEN b ELSE a

\* v?.k
Get(v, k) == IF v.t = "obj" /\ k \in DOMAIN v.f THEN v.f[k] ELSE Undef

\* Number(string), for the strings of the modelled bodies.
NumberOfString(s) ==
  CASE s = "" -> Num(0)
    [] s = "3" -> Num(3)
    [] OTHER -> NaN

\* Number(v)
ToNumber(v) ==
  CASE v.t = "num" -> v
    [] v.t = "str" -> NumberOfString(v.s)
    [] v.t = "null" -> Num(0)
    [] OTHER -> NaN

(***************************************************************************)
(* Request bodies and JSON.parse                                           *)
(* A body is its text; in the texts ' stands for the JSON double quote and *)
(* a nested JSON string is delimited by double quotes.                     *)
(***************************************************************************)
T_bad == "not json"
T_spec == "{'payload':{'products':[{'name':'Coffee','quantity':2},{'productName':'Tea'}]}}"
T_neg == "{'payload':{'products':[{'name':'Coffee','quantity':-1}]}}"
T_edge == "{'payload':{'products':[{'name':'','variantName':'Tea','quantity':0},null,{'productName':'Tea','variantName':'Coffee','quantity':'abc'}]}}"
T_inner == "{'products':[{'variantName':'Tea','quantity':'3'}]}"
T_str == "{'payload':\"{'products':[{'variantName':'Tea','quantity':'3'}]}\"}"
T_strbad == "{'payload':\"oops\"}"
T_widget == "{'resource':{'purchase_units':[{'items':[{'name':'Widget','quantity':3}]}]}}"
T_custom == "{'resource':{'custom_id':'order1'}}"
T_nounits == "{'resource':{'purchase_units':[]}}"
T_noitems == "{'resource':{'purchase_units':[{'items':[{'quantity':'3'}]},{}]}}"
T_unitonly == "{'resource':{'custom_id':'order1','purchase_units':[{}]}}"
T_obj == "{'payload':{'products':[{'variantName':'Tea','quantity':'3'}]}}"
T_partial == "{'resource':{'purchase_units':[{'items':[{'name':'Tea'}]},{},{'items':[{'name':'Coffee'}]}]}}"

Bodies == {T_bad, T_spec, T_neg, T_edge, T_str, T_strbad, T_obj,
           T_widget, T_custom, T_nounits, T_noitems, T_unitonly, T_partial}

V_inner ==
  Obj([products |-> Arr(<<Obj([variantName |-> Str("Tea"), quantity |-> Str("3")])>>)])

\* JSON.parse: the value of a text, or a SyntaxError.
JSONparse(text) ==
  CASE text = T_spec ->
         [ok |-> TRUE, v |-> Obj([payload |-> Obj([products |-> Arr(<<
            Obj([name |-> Str("Coffee"), quantity |-> Num(2)]),
            Obj([productName |-> Str("Tea")])>>)])])]
    [] text = T_neg ->
         [ok |-> TRUE, v |-> Obj([payload |-> Obj([products |-> Arr(<<
            Obj([name |-> Str("Coffee"), quantity |-> Num(-1)])>>)])])]
    [] text = T_edge ->
         [ok |-> TRUE, v |-> Obj([payload |-> Obj([products |-> Arr(<<
            Obj([name |-> Str(""), variantName |-> Str("Tea"), quantity |-> Num(0)]),
            Null,
            Obj([productName |-> Str("Tea"), variantName |-> Str("Coffee"),
                 quantity |-> Str("abc")])>>)])])]
    [] text = T_inner -> [ok |-> TRUE, v |-> V_inner]
    [] text = T_str -> [ok |-> TRUE, v |-> Obj([payload |-> Str(T_inner)])]
    [] text = T_strbad -> [ok |-> TRUE, v |-> Obj([payload |-> Str("oops")])]
    [] text = T_widget ->
         [ok |-> TRUE, v |-> Obj([resource |-> Obj([purchase_units |-> Arr(<<
            Obj([items |-> Arr(<<
              Obj([name |-> Str("Widget"), quantity |-> Num(3)])>>)])>>)])])]
    [] text = T_custom ->
         [ok |-> TRUE, v |-> Obj([resource |-> Obj([custom_id |-> Str("order1")])])]
    [] text = T_nounits ->
         [ok |-> TRUE, v |-> Obj([resource |-> Obj([purchase_units |-> Arr(<<>>)])])]
    [] text = T_noitems ->
         [ok |-> TRUE, v |-> Obj([resource |-> Obj([purchase_units |-> Arr(<<
            Obj([items |-> Arr(<<Obj([quantity |-> Str("3")])>>)]),
            Obj(<<>>)>>)])])]
    [] text = T_unitonly ->
         [ok |-> TRUE, v |-> Obj([resource |-> Obj([custom_id |-> Str("order1"),
            purchase_units |-> Arr(<<Obj(<<>>)>>)])])]
    [] text = T_obj -> [ok |-> TRUE, v |-> Obj([payload |-> V_inner])]
    [] text = T_partial ->
         [ok |-> TRUE, v |-> Obj([resource |-> Obj([purchase_units |-> Arr(<<
            Obj([items |-> Arr(<<Obj([name |-> Str("Tea")])>>)]),
            Obj(<<>>),
            Obj([items |-> Arr(<<Obj([name |-> Str("Coffee")])>>)])>>)])])]
    [] OTHER -> [ok |-> FALSE, v |-> Undef]

(***************************************************************************)
(* HMAC-SHA256, hex strings and the signing secret                         *)
(* A hex string is a sequence of characters.  The digest of (key, body) is *)
(* one character for the key bytes followed by two for the body: distinct  *)
(* (key, body) pairs have distinct digests.                                *)
(***************************************************************************)
HexLower == <<"0", "1", "2", "3", "4", "5", "6", "7", "8", "9",
              "a", "b", "c", "d", "e", "f">>

Secrets == {"c2Vj", "sec"}

\* Buffer.from(s, "base64"): the decoded bytes, written as a string.
Base64Decode(s) ==
  CASE s = "c2Vj" -> "sec"
    [] s = "sec" -> "<b1 e7>"
    [] OTHER -> ""

KeyBytes == {"c2Vj", "sec", "<b1 e7>", "other"}

KeyChar(k) ==
  CASE k = "c2Vj" -> "a"
    [] k = "sec" -> "b"
    [] k = "<b1 e7>" -> "c"
    [] k = "" -> "e"
    [] OTHER -> "d"

BodyIndex(b) ==
  CASE b = T_bad -> 10 [] b = T_spec -> 11 [] b = T_neg -> 12
    [] b = T_edge -> 13 [] b = T_str -> 14 [] b = T_strbad -> 15
    [] b = T_widget -> 26 [] b = T_custom -> 27 [] b = T_nounits -> 28
    [] b = T_noitems -> 29 [] b = T_unitonly -> 30 [] b = T_obj -> 16
    [] b = T_partial -> 31
    [] OTHER -> 0

\* crypto.createHmac("sha256", key).update(body).digest("hex")
HmacHex(key, body) ==
  <<KeyChar(key), HexLower[(BodyIndex(body) \div 16) + 1],
    HexLower[(BodyIndex(body) % 16) + 1]>>

LowerChar(c) ==
  CASE c = "A" -> "a" [] c = "B" -> "b" [] c = "C" -> "c"
    [] c = "D" -> "d" [] c = "E" -> "e" [] c = "F" -> "f"
    [] OTHER -> c

UpperChar(c) ==
  CASE c = "a" -> "A" [] c = "b" -> "B" [] c = "c" -> "C"
    [] c = "d" -> "D" [] c = "e" -> "E" [] c = "f" -> "F"
    [] OTHER -> c

\* String.prototype.toLowerCase
toLowerCase(s) == [i \in 1..Len(s) |-> LowerChar(s[i])]
toUpperCase(s) == [i \in 1..Len(s) |-> UpperChar(s[i])]

\* String.prototype.trim
RECURSIVE trim(_)
trim(s) ==
  IF s = <<>> THEN s
  ELSE IF Head(s) = " " THEN trim(Tail(s))
  ELSE IF s[Len(s)] = " " THEN trim(SubSeq(s, 1, Len(s) - 1))
  ELSE s

(***************************************************************************)
(* Leaderboard store                                                       *)
(***************************************************************************)
TopN == 20

\* Map.prototype.get: the value stored under name, or undefined.
MapGet(lb, name) ==
  IF \E i \in 1..Len(lb) : lb[i].name = name
    THEN Num((lb[CHOOSE i \in 1..Len(lb) : lb[i].name = name]).count)
    ELSE Undef

\* Map.prototype.set: an existing key keeps its position, a new key is appended.
MapSet(lb, name, count) ==
  IF \E i \in 1..Len(lb) : lb[i].name = name
    THEN [i \in 1..Len(lb) |->
            IF lb[i].name = name THEN [name |-> name, count |-> count] ELSE lb[i]]
    ELSE Append(lb, [name |-> name, count |-> count])

\* prev = leaderboard.get(name) || 0
PrevCount(lb, name) ==
  LET v == MapGet(lb, name) IN IF v.t = "num" /\ v.n # 0 THEN v.n ELSE 0

bumpOverwrite(lb, name, qty) == MapSet(lb, name, qty)

bump(lb, name, qty) == MapSet(lb, name, PrevCount(lb, name) + qty)

\* Array.prototype.sort with comparator (a, b) => b.count - a.count: a stable
\* sort, so an element is placed after every element it does not precede.
InsertDesc(sorted, e) ==
  LET pos == Cardinality({i \in 1..Len(sorted) : sorted[i].count >= e.count})
  IN SubSeq(sorted, 1, pos) \o <<e>> \o SubSeq(sorted, pos + 1, Len(sorted))

RECURSIVE SortDesc(_)
SortDesc(s) ==
  IF s = <<>> THEN <<>>
  ELSE InsertDesc(SortDesc(SubSeq(s, 1, Len(s) - 1)), s[Len(s)])

Slice(s, n) == SubSeq(s, 1, IF Len(s) < n THEN Len(s) ELSE n)

top20Unstable(lb) ==
  LET RECURSIVE Rev(_)
      Rev(s) == IF s = <<>> THEN <<>> ELSE Append(Rev(Tail(s)), Head(s))
  IN Slice(Rev(SortDesc(Rev(lb))), TopN)

top20(lb) == Slice(SortDesc(lb), TopN)

(***************************************************************************)
(* Store harness: bump and top20 as pure functions of the Map              *)
(***************************************************************************)
StoreNames == {"Coffee", "Tea", "Ukjent"}
StoreQtys == {-1, 1, 2}
BumpCalls == [name : StoreNames, qty : StoreQtys]

ShortRuns == UNION {[1..n -> BumpCalls] : n \in 0..MaxBumps}

\* Long runs: NumNames distinct names, quantities cycling through 1..3 so
\* that ties and strict orderings both occur among more than TopN entries.
LongRun(k) ==
  [i \in 1..NumNames |-> [name |-> ToString(i), qty |-> ((i * k) % 3) + 1]]
LongRuns == {LongRun(k) : k \in 1..3}

RECURSIVE FoldBumps(_, _)
FoldBumps(lb, calls) ==
  IF calls = <<>> THEN lb
  ELSE FoldBumps(bump(lb, Head(calls).name, Head(calls).qty), Tail(calls))

NoSnapshot == [called |-> FALSE, of |-> <<>>, top |-> <<>>]

StoreInit ==
  /\ variant = "raw"
  /\ env = [ZETTLE_WEBHOOK_SIGNING_KEY |-> "", PAYPAL_WEBHOOK_ID |-> "",
            PAYPAL_CLIENT_ID |-> "", PAYPAL_CLIENT_SECRET |-> "",
            ZETTLE_CLIENT_ID |-> "", ZETTLE_API_KEY |-> ""]
  /\ now = 0
  /\ leaderboard = <<>>
  /\ clients = <<>>
  /\ inbox = <<>>
  /\ broken = {}
  /\ cachedPayPalToken = Null
  /\ paypalTokenExpiresAt = 0
  /\ cachedToken = Null
  /\ tokenExpiresAt = 0
  /\ counts = <<>>
  /\ counted = 0
  /\ reqs = <<>>
  /\ started = 0
  /\ subs = 0
  /\ todo \in ShortRuns \cup LongRuns
  /\ applied = <<>>
  /\ snapshot = NoSnapshot

StoreBump ==
  /\ todo # <<>>
  /\ leaderboard' = bump(leaderboard, Head(todo).name, Head(todo).qty)
  /\ todo' = Tail(todo)
  /\ applied' = Append(applied, Head(todo))
  /\ UNCHANGED <<webVars, snapshot>>

StoreTop ==
  /\ snapshot' = [called |-> TRUE, of |-> leaderboard, top |-> top20(leaderboard)]
  /\ UNCHANGED <<webVars, leaderboard, todo, applied>>

StoreNext == StoreBump \/ StoreTop

StoreSpec == StoreInit /\ [][StoreNext]_vars

(***************************************************************************)
(* Live feed: sendToClients, GET /events                                   *)
(***************************************************************************)
Range(f) == {f[i] : i \in DOMAIN f}

sendToClientsAll(ib, cl, data) ==
  [c \in DOMAIN ib |-> Append(ib[c], data)]

\* clients.forEach(c => c.write(msg))
sendToClients(ib, cl, data) ==
  [c \in DOMAIN ib |-> IF c \in Range(cl) THEN Append(ib[c], data) ELSE ib[c]]

\* The events written; their "at" timestamp is not modelled.
ConnectedEvent == [type |-> "connected"]
LeaderboardEvent(top) == [type |-> "leaderboard", top |-> top]

(***************************************************************************)
(* Webhook processing                                                      *)
(***************************************************************************)
ItemNameVariantFirst(p, sentinel) ==
  Or(Or(Or(Get(p, "variantName"), Get(p, "productName")), Get(p, "name")),
     Str(sentinel)).s

\* p?.name || p?.productName || p?.variantName || sentinel
ItemName(p, sentinel) ==
  Or(Or(Or(Get(p, "name"), Get(p, "productName")), Get(p, "variantName")),
     Str(sentinel)).s

\* Number(p?.quantity ?? 1) || 1
ItemQty(p) == Or(ToNumber(Nullish(Get(p, "quantity"), Num(1))), Num(1)).n

DecodePayloadSkip(body, times) == [ok |-> TRUE, v |-> body]

\* if (typeof body?.payload === "string") body.payload = JSON.parse(body.payload),
\* repeated as many times as the handler repeats it.
RECURSIVE DecodePayload(_, _)
DecodePayload(body, times) ==
  IF times = 0 THEN [ok |-> TRUE, v |-> body]
  ELSE IF Get(body, "payload").t = "str"
    THEN LET inner == JSONparse(Get(body, "payload").s)
         IN IF inner.ok
              THEN DecodePayload(Obj([body.f EXCEPT !["payload"] = inner.v]),
                                 times - 1)
              ELSE [ok |-> FALSE, v |-> Undef]
    ELSE DecodePayload(body, times - 1)

ProcessZettleLenient(text, decodes, sentinel) ==
  LET parsed == JSONparse(text)
      body == IF parsed.ok THEN DecodePayload(parsed.v, decodes)
              ELSE [ok |-> FALSE, v |-> Undef]
      products == IF body.ok
                    THEN Or(Get(Get(body.v, "payload"), "products"), Arr(<<>>)).a
                    ELSE <<>>
  IN [calls |-> [i \in 1..Len(products) |->
                   [name |-> ItemName(products[i], sentinel),
                    qty |-> ItemQty(products[i])]],
      publish |-> TRUE]

\* The part of the path-A handlers after res.sendStatus(200): the bump calls
\* made and whether sendToClients is reached.
ProcessZettle(text, decodes, sentinel) ==
  LET parsed == JSONparse(text)
  IN IF ~parsed.ok THEN [calls |-> <<>>, publish |-> FALSE]
     ELSE LET body == DecodePayload(parsed.v, decodes)
          IN IF ~body.ok THEN [calls |-> <<>>, publish |-> FALSE]
             ELSE LET products ==
                        Or(Get(Get(body.v, "payload"), "products"), Arr(<<>>)).a
                  IN [calls |-> [i \in 1..Len(products) |->
                                   [name |-> ItemName(products[i], sentinel),
                                    qty |-> ItemQty(products[i])]],
                      publish |-> TRUE]

\* body?.resource?.purchase_units?.flatMap(unit => unit?.items?.map(...)):
\* undefined when there are no purchase_units, else one element per item and
\* one undefined element per unit without an items list.
RECURSIVE FlatMapUnits(_)
FlatMapUnits(units) ==
  IF units = <<>> THEN <<>>
  ELSE LET items == Get(Head(units), "items")
           mapped ==
             IF items.t = "arr"
               THEN [i \in 1..Len(items.a) |->
                       [def |-> TRUE,
                        name |-> Or(Get(items.a[i], "name"), Str("Ukjent")).s,
                        qty |-> ItemQty(items.a[i])]]
               ELSE <<[def |-> FALSE, name |-> "", qty |-> 0]>>
       IN mapped \o FlatMapUnits(Tail(units))

\* The part of path B after res.sendStatus(200) (server.js:178-195): the
\* bump calls made before the loop ends or reads a property of an undefined
\* element, and whether sendToClients is reached.
ProcessPayPal(body) ==
  LET resource == Get(body, "resource")
      units == Get(resource, "purchase_units")
  IN IF units.t = "arr" /\ FlatMapUnits(units.a) # <<>>
       THEN LET products == FlatMapUnits(units.a)
                bad == {i \in 1..Len(products) : ~products[i].def}
                stop == IF bad = {} THEN Len(products) + 1
                        ELSE CHOOSE i \in bad : \A j \in bad : i <= j
            IN [calls |-> [i \in 1..(stop - 1) |->
                             [name |-> products[i].name, qty |-> products[i].qty]],
                publish |-> bad = {}]
       ELSE [calls |-> <<[name |-> Or(Get(resource, "custom_id"),
                                      Str("PayPal salg")).s,
                          qty |-> 1]>>,
             publish |-> TRUE]

(***************************************************************************)
(* Requests                                                                *)
(***************************************************************************)
MaxReqs == 2        \* request slots: webhooks handled concurrently
MaxStarted == 2     \* POST /webhook requests received in a run
MaxSubs == 2        \* GET /events requests received in a run
MaxTime == 60000    \* last value of the clock
TickMs == 60000     \* clock step

Reqs == 1..MaxReqs

PayPalHeaders == {"paypal-transmission-id", "paypal-transmission-time",
                  "paypal-cert-url", "paypal-auth-algo",
                  "paypal-transmission-sig"}

\* Header sets of the verification runs: all five headers, none, one
\* missing, and all five with one of them empty.
HeaderSets ==
  {[h \in PayPalHeaders |-> "x"], <<>>,
   [h \in PayPalHeaders |-> IF h = "paypal-cert-url" THEN "" ELSE "x"]}
    \cup {[h \in PayPalHeaders \ {m} |-> "x"] : m \in PayPalHeaders}

Tamper(hex) == [hex EXCEPT ![Len(hex)] = IF @ = "0" THEN "1" ELSE "0"]

\* Values of the x-izettle-signature header sent with a body.
SigValues(body) ==
  {<<>>, <<" ", " ">>}
    \cup {HmacHex(k, body) : k \in KeyBytes}
    \cup {<<" ">> \o toUpperCase(HmacHex(k, body)) \o <<" ">> : k \in Secrets}
    \cup {Tamper(HmacHex(k, body)) : k \in Secrets}
    \cup {HmacHex(k, T_spec) : k \in Secrets}

NoSig == [present |-> FALSE, v |-> <<>>]
SigHeader(v) == [present |-> TRUE, v |-> v]

\* Requests of the webhook runs.  Provider-B deliveries carry the five
\* headers and no signature; the others carry no provider-B header and are
\* unsigned, signed with the secret "sec" as text, or signed with an
\* unrelated key.
PayPalBodies == {T_bad, T_spec, T_widget, T_custom, T_nounits, T_noitems,
                 T_unitonly}

PayPalRequests ==
  {[hdrs |-> [k \in PayPalHeaders |-> "x"], sig |-> NoSig, body |-> b] :
     b \in PayPalBodies}

ZettleBodies == {T_bad, T_spec, T_neg, T_edge, T_str, T_strbad, T_obj, T_custom}

ZettleRequests ==
  {[hdrs |-> <<>>, sig |-> NoSig, body |-> b] : b \in {T_spec, T_neg}}
    \cup {[hdrs |-> <<>>, sig |-> SigHeader(HmacHex("other", b)), body |-> b] :
            b \in {T_spec, T_bad}}
    \cup {[hdrs |-> <<>>, sig |-> SigHeader(HmacHex("sec", b)), body |-> b] :
            b \in ZettleBodies}

\* Requests of the runs of the whole server: a sample of both kinds.
Requests ==
  {req \in PayPalRequests : req.body \in {T_bad, T_widget, T_custom, T_unitonly}}
    \cup {req \in ZettleRequests :
            \/ req.body \in {T_spec, T_neg}
            \/ req.sig # NoSig /\ req.sig.v = HmacHex("sec", req.body)
                 /\ req.body \in {T_bad, T_str}}

\* Requests of the verification runs: two bodies, with every header set and
\* every signature value.
SigRequests ==
  UNION {{[hdrs |-> h, sig |-> NoSig, body |-> b] : h \in HeaderSets}
           \cup {[hdrs |-> h, sig |-> SigHeader(v), body |-> b] :
                   h \in HeaderSets, v \in SigValues(b)} : b \in {T_bad, T_neg}}

\* req.header(name)
Header(hdrs, name) == IF name \in DOMAIN hdrs THEN Str(hdrs[name]) ELSE Undef

\* String(req.header("x-izettle-signature") || "").trim()
SignatureOf(sig) == trim(IF sig.present THEN sig.v ELSE <<>>)

hasPayPalHeaders(hdrs) ==
  /\ Truthy(Header(hdrs, "paypal-transmission-id"))
  /\ Truthy(Header(hdrs, "paypal-transmission-time"))
  /\ Truthy(Header(hdrs, "paypal-cert-url"))
  /\ Truthy(Header(hdrs, "paypal-auth-algo"))
  /\ Truthy(Header(hdrs, "paypal-transmission-sig"))

\* A request slot: the handler's position, the inputs it read, its response
\* (status 0: none sent) and what it did.
IdleReq ==
  [pc |-> "idle", route |-> "none", hdrs |-> <<>>, sig |-> NoSig, body |-> "",
   status |-> 0, verified |-> FALSE, hmacs |-> 0, calls |-> <<>>,
   published |-> FALSE, tokenErr |-> FALSE, verifyRes |-> "none",
   fetches |-> 0, token |-> Null, tokenLeft |-> 0]

Done(route, hdrs, sig, body, status, verified, hmacs, effect) ==
  [IdleReq EXCEPT !.pc = "done", !.route = route, !.hdrs = hdrs, !.sig = sig,
                  !.body = body, !.status = status, !.verified = verified,
                  !.hmacs = hmacs, !.calls = effect.calls,
                  !.published = effect.publish]

NoEffect == [calls |-> <<>>, publish |-> FALSE]

(***************************************************************************)
(* Provider-B token cache: getPayPalAccessToken                            *)
(***************************************************************************)
SafetyMarginMs == 60000

TokenFreshNever(token, expiresAt, at) == FALSE

\* cachedPayPalToken && now < paypalTokenExpiresAt - 60_000
TokenFresh(token, expiresAt, at) ==
  Truthy(token) /\ at < expiresAt - SafetyMarginMs

\* !clientId || !clientSecret
MissingPayPalCredentials(e) ==
  ~Truthy(Str(e.PAYPAL_CLIENT_ID)) \/ ~Truthy(Str(e.PAYPAL_CLIENT_SECRET))

\* Responses of the token endpoint: a transport error, a non-2xx response,
\* or a 2xx response carrying access_token and expires_in (seconds).
TokenResponses ==
  {[neterr |-> TRUE, ok |-> FALSE, access_token |-> "", expires_in |-> 0],
   [neterr |-> FALSE, ok |-> FALSE, access_token |-> "", expires_in |-> 0]}
    \cup {[neterr |-> FALSE, ok |-> TRUE, access_token |-> t, expires_in |-> e] :
            t \in {"tok1"}, e \in {30, 120}}

ExchangeClearsOnFailure(resp, token, expiresAt, at) ==
  IF resp.neterr \/ ~resp.ok
    THEN [threw |-> TRUE, token |-> Null, expiresAt |-> 0]
    ELSE [threw |-> FALSE, token |-> Str(resp.access_token),
          expiresAt |-> at + resp.expires_in * 1000]

\* The part of a token getter after its await fetch: it throws on a failed
\* request or a non-2xx response, else stores access_token with the expiry
\* Date.now() + expires_in * 1000.  The result is whether it threw and the
\* cache it leaves.
Exchange(resp, token, expiresAt, at) ==
  IF resp.neterr \/ ~resp.ok
    THEN [threw |-> TRUE, token |-> token, expiresAt |-> expiresAt]
    ELSE [threw |-> FALSE, token |-> Str(resp.access_token),
          expiresAt |-> at + resp.expires_in * 1000]

(***************************************************************************)
(* Provider-A token cache: getAccessToken, called by GET /purchases-count  *)
(***************************************************************************)
MaxCounts == 1      \* GET /purchases-count requests handled concurrently
MaxCounted == 2     \* GET /purchases-count requests received in a run

Counts == 1..MaxCounts

\* A GET /purchases-count slot: the handler's position, what getAccessToken
\* did for it (token requests sent, token returned, time left to the token's
\* expiry at the return, error thrown) and the response (status 0: none).
IdleCount ==
  [pc |-> "idle", fetches |-> 0, token |-> Null, tokenLeft |-> 0,
   tokenErr |-> FALSE, status |-> 0]

\* !clientId || !apiKey.  getAccessToken of server.js:15-37 has no such
\* test; those of part_000:7-37 and server.js:332-357 throw on it.
ChecksZettleCredentials(v) == v # "dual"

MissingZettleCredentials(e) ==
  ~Truthy(Str(e.ZETTLE_CLIENT_ID)) \/ ~Truthy(Str(e.ZETTLE_API_KEY))

\* Responses of GET purchases/v2: a transport error, a body that is not
\* JSON, or a JSON body.
PurchasesResponses == {"neterr", "badjson", "json"}

RetireCounts(cs) ==
  [k \in DOMAIN cs |-> IF cs[k].pc = "done" THEN IdleCount ELSE cs[k]]

(***************************************************************************)
(* Signature verification                                                  *)
(***************************************************************************)
\* Responses of verify-webhook-signature: a transport error, or an HTTP
\* response with its ok flag, whether its body is JSON, and the
\* verification_status of that JSON.
VerifyResponses ==
  {[neterr |-> TRUE, ok |-> FALSE, json |-> FALSE, verification_status |-> ""],
   [neterr |-> FALSE, ok |-> FALSE, json |-> TRUE, verification_status |-> "SUCCESS"],
   [neterr |-> FALSE, ok |-> TRUE, json |-> FALSE, verification_status |-> ""],
   [neterr |-> FALSE, ok |-> TRUE, json |-> TRUE, verification_status |-> "SUCCESS"],
   [neterr |-> FALSE, ok |-> TRUE, json |-> TRUE, verification_status |-> "FAILURE"]}

VerifyKind(resp) ==
  IF resp.neterr THEN "neterr"
  ELSE IF ~resp.ok THEN "non2xx"
  ELSE IF ~resp.json THEN "badjson"
  ELSE resp.verification_status

VerifyDecisionAnyBody(resp) ==
  IF resp.neterr THEN 500
  ELSE IF ~resp.ok THEN 401
  ELSE 200

\* server.js:139-176: the status path B answers with for a verify response.
VerifyDecision(resp) ==
  IF resp.neterr THEN 500
  ELSE IF ~resp.ok THEN 401
  ELSE IF ~resp.json THEN 500
  ELSE IF resp.verification_status # "SUCCESS" THEN 401
  ELSE 200

UsePathBHeadersOnly(hdrs, paypalWebhookId) == hasPayPalHeaders(hdrs)

\* if (hasPayPalHeaders && paypalWebhookId)
UsePathB(hdrs, paypalWebhookId) ==
  hasPayPalHeaders(hdrs) /\ Truthy(Str(paypalWebhookId))

\* part_000:85-199
HandleRaw(req) ==
  LET signingKey == env.ZETTLE_WEBHOOK_SIGNING_KEY
      receivedSignature == SignatureOf(req.sig)
      expectedHexTextKey == HmacHex(signingKey, req.body)
      expectedHexB64Key == HmacHex(Base64Decode(signingKey), req.body)
      recvLower == toLowerCase(receivedSignature)
      ok == \/ recvLower = toLowerCase(expectedHexTextKey)
            \/ recvLower = toLowerCase(expectedHexB64Key)
  IN IF ~Truthy(Str(signingKey))
       THEN Done("A", <<>>, req.sig, req.body, 500, FALSE, 0, NoEffect)
     ELSE IF receivedSignature = <<>>
       THEN Done("A", <<>>, req.sig, req.body, 401, FALSE, 0, NoEffect)
     ELSE IF ~ok
       THEN Done("A", <<>>, req.sig, req.body, 401, FALSE, 2, NoEffect)
     ELSE Done("A", <<>>, req.sig, req.body, 200, TRUE, 4,
               ProcessZettle(req.body, 2, "Ukjent produkt"))

\* server.js:402-448
HandleText(req) ==
  Done("none", <<>>, NoSig, req.body, 200, FALSE, 0,
       ProcessZettle(req.body, 1, "Ukjent produkt"))

\* server.js:201-262.  Lines 204-220 compute the base64-key digest twice and
\* never bind expectedText, so reading it on line 223 raises a
\* ReferenceError: the handler ends there without a response.
HandleDualPathA(req) ==
  LET signingKey == env.ZETTLE_WEBHOOK_SIGNING_KEY
      signature == SignatureOf(req.sig)
  IN IF ~Truthy(Str(signingKey)) \/ signature = <<>>
       THEN Done("A", req.hdrs, req.sig, req.body, 401, FALSE, 0, NoEffect)
       ELSE Done("A", req.hdrs, req.sig, req.body, 0, FALSE, 2, NoEffect)

\* server.js:131-140, up to the first await of path B.
HandleDualPathB(req) ==
  LET inflight == [IdleReq EXCEPT !.route = "B", !.hdrs = req.hdrs,
                                  !.body = req.body]
  IN IF ~JSONparse(req.body).ok
       THEN Done("B", req.hdrs, NoSig, req.body, 400, FALSE, 0, NoEffect)
     ELSE IF TokenFresh(cachedPayPalToken, paypalTokenExpiresAt, now)
       THEN [inflight EXCEPT !.pc = "awaitVerify",
                             !.token = cachedPayPalToken,
                             !.tokenLeft = paypalTokenExpiresAt - now]
     ELSE IF MissingPayPalCredentials(env)
       THEN [Done("B", req.hdrs, NoSig, req.body, 500, FALSE, 0, NoEffect)
               EXCEPT !.tokenErr = TRUE]
     ELSE [inflight EXCEPT !.pc = "awaitToken", !.fetches = 1]

\* server.js:112-262
HandleDual(req) ==
  IF UsePathB(req.hdrs, env.PAYPAL_WEBHOOK_ID)
    THEN HandleDualPathB(req)
    ELSE HandleDualPathA(req)

Handle(req) ==
  CASE variant = "raw" -> HandleRaw(req)
    [] variant = "dual" -> HandleDual(req)
    [] variant = "text" -> HandleText(req)

\* The request and response objects of a finished request are dropped at
\* the next turn of the event loop.
Retire(rs) == [r \in DOMAIN rs |-> IF rs[r].pc = "done" THEN IdleReq ELSE rs[r]]

ApplyStale(rec) ==
  /\ leaderboard' = FoldBumps(leaderboard, rec.calls)
  /\ inbox' = IF rec.published
                THEN sendToClients(inbox, clients,
                                   LeaderboardEvent(top20(leaderboard)))
                ELSE inbox

\* What a handler step does to the store and the live feed.
Apply(rec) ==
  /\ leaderboard' = FoldBumps(leaderboard, rec.calls)
  /\ inbox' = IF rec.published
                THEN sendToClients(inbox, clients,
                                   LeaderboardEvent(top20(leaderboard')))
                ELSE inbox

(***************************************************************************)
(* Actions                                                                 *)
(***************************************************************************)
storeVars == <<todo, applied, snapshot>>

\* process.env; "" is an unset variable.  Only the "dual" generation reads
\* the PAYPAL_ variables.
Envs(keys) ==
  [ZETTLE_WEBHOOK_SIGNING_KEY : keys,
   PAYPAL_WEBHOOK_ID : {"", "WH-1"},
   PAYPAL_CLIENT_ID : {"id"},
   PAYPAL_CLIENT_SECRET : {"", "pw"},
   ZETTLE_CLIENT_ID : {"zid"},
   ZETTLE_API_KEY : {"zkey"}]

Deployments(keys) ==
  {[variant |-> "dual", env |-> e] : e \in Envs(keys)}
    \cup {[variant |-> v,
           env |-> [ZETTLE_WEBHOOK_SIGNING_KEY |-> k, PAYPAL_WEBHOOK_ID |-> "",
                    PAYPAL_CLIENT_ID |-> "", PAYPAL_CLIENT_SECRET |-> "",
                    ZETTLE_CLIENT_ID |-> "zid", ZETTLE_API_KEY |-> "zkey"]] :
            v \in {"raw", "text"}, k \in keys}

\* The state after the module is loaded, for a set of deployments.
StartWith(deployments) ==
  /\ \E d \in deployments : variant = d.variant /\ env = d.env
  /\ now = 0
  /\ leaderboard = <<>>
  /\ clients = <<>>
  /\ inbox = <<>>
  /\ broken = {}
  /\ cachedPayPalToken = Null
  /\ paypalTokenExpiresAt = 0
  /\ cachedToken = Null
  /\ tokenExpiresAt = 0
  /\ counts = [k \in Counts |-> IdleCount]
  /\ counted = 0
  /\ reqs = [r \in Reqs |-> IdleReq]
  /\ started = 0
  /\ subs = 0
  /\ todo = <<>>
  /\ applied = <<>>
  /\ snapshot = NoSnapshot

Start(keys) == StartWith(Deployments(keys))

Init == Start({"", "sec"})

\* POST /webhook arrives: the handler runs to its end or to its first await.
Receive(r, req) ==
  /\ started < MaxStarted
  /\ reqs[r].pc \in {"idle", "done"}
  /\ \A q \in 1..(r - 1) : reqs[q].pc \notin {"idle", "done"}
  /\ LET rec == Handle(req)
     IN /\ reqs' = [Retire(reqs) EXCEPT ![r] = rec]
        /\ Apply(rec)
  /\ started' = started + 1
  /\ UNCHANGED <<variant, env, now, clients, broken, cachedPayPalToken,
                 paypalTokenExpiresAt, subs, storeVars, cachedToken, tokenExpiresAt,
                 counted>>
  /\ counts' = RetireCounts(counts)

\* The token endpoint answers (server.js:52-69), and path B goes on to issue
\* the verification call, or fails with 500.
TokenResponse(r, resp) ==
  /\ reqs[r].pc = "awaitToken"
  /\ LET x == Exchange(resp, cachedPayPalToken, paypalTokenExpiresAt, now)
     IN /\ cachedPayPalToken' = x.token
        /\ paypalTokenExpiresAt' = x.expiresAt
        /\ reqs' = [Retire(reqs) EXCEPT ![r] =
                      IF x.threw
                        THEN [reqs[r] EXCEPT !.pc = "done", !.status = 500,
                                             !.tokenErr = TRUE]
                        ELSE [reqs[r] EXCEPT !.pc = "awaitVerify",
                                             !.token = x.token,
                                             !.tokenLeft = x.expiresAt - now]]
  /\ UNCHANGED <<variant, env, now, leaderboard, clients, inbox, broken,
                 started, subs, storeVars, cachedToken, tokenExpiresAt,
                 counted>>
  /\ counts' = RetireCounts(counts)

\* The verification endpoint answers (server.js:161-198).
VerifyResponse(r, resp) ==
  /\ reqs[r].pc = "awaitVerify"
  /\ LET status == VerifyDecision(resp)
         effect == IF status = 200
                     THEN ProcessPayPal(JSONparse(reqs[r].body).v)
                     ELSE NoEffect
         rec == [reqs[r] EXCEPT !.pc = "done", !.status = status,
                                !.verified = (status = 200),
                                !.verifyRes = VerifyKind(resp),
                                !.calls = effect.calls,
                                !.published = effect.publish]
     IN /\ reqs' = [Retire(reqs) EXCEPT ![r] = rec]
        /\ Apply(rec)
  /\ UNCHANGED <<variant, env, now, clients, broken, cachedPayPalToken,
                 paypalTokenExpiresAt, started, subs, storeVars, cachedToken, tokenExpiresAt,
                 counted>>
  /\ counts' = RetireCounts(counts)

\* GET /events: the response joins clients; the "raw" and "text" generations
\* then send a connected event to every client.
Subscribe ==
  /\ subs < MaxSubs
  /\ subs' = subs + 1
  /\ clients' = Append(clients, subs + 1)
  /\ inbox' = IF variant = "dual"
                THEN Append(inbox, <<>>)
                ELSE sendToClients(Append(inbox, <<>>), clients',
                                   ConnectedEvent)
  /\ reqs' = Retire(reqs)
  /\ UNCHANGED <<variant, env, now, leaderboard, broken, cachedPayPalToken,
                 paypalTokenExpiresAt, started, storeVars, cachedToken, tokenExpiresAt,
                 counted>>
  /\ counts' = RetireCounts(counts)

\* req.on("close"): clients = clients.filter(c => c !== res)
Close(c) ==
  /\ c \in Range(clients)
  /\ clients' = SelectSeq(clients, LAMBDA x : x # c)
  /\ broken' = broken \ {c}
  /\ reqs' = Retire(reqs)
  /\ UNCHANGED <<variant, env, now, leaderboard, inbox, cachedPayPalToken,
                 paypalTokenExpiresAt, started, subs, storeVars, cachedToken, tokenExpiresAt,
                 counted>>
  /\ counts' = RetireCounts(counts)

\* The socket of an open connection fails.  From then on res.write reports
\* the failure through its return value and the stream's events, it does not
\* throw; the close event of the request (Close) follows later.
Break(c) ==
  /\ c \in Range(clients) \ broken
  /\ broken' = broken \cup {c}
  /\ reqs' = Retire(reqs)
  /\ UNCHANGED <<variant, env, now, leaderboard, clients, inbox,
                 cachedPayPalToken, paypalTokenExpiresAt, started, subs,
                 storeVars, cachedToken, tokenExpiresAt,
                 counted>>
  /\ counts' = RetireCounts(counts)

\* GET /purchases-count arrives: getAccessToken runs to its return, its
\* throw or its await of the token request.
PurchasesCount(k) ==
  /\ counted < MaxCounted
  /\ counts[k].pc \in {"idle", "done"}
  /\ \A q \in 1..(k - 1) : counts[q].pc \notin {"idle", "done"}
  /\ counted' = counted + 1
  /\ counts' = [RetireCounts(counts) EXCEPT ![k] =
       IF TokenFresh(cachedToken, tokenExpiresAt, now)
         THEN [IdleCount EXCEPT !.pc = "awaitPurchases", !.token = cachedToken,
                                !.tokenLeft = tokenExpiresAt - now]
       ELSE IF ChecksZettleCredentials(variant) /\ MissingZettleCredentials(env)
         THEN [IdleCount EXCEPT !.pc = "done", !.tokenErr = TRUE, !.status = 500]
       ELSE [IdleCount EXCEPT !.pc = "awaitToken", !.fetches = 1]]
  /\ UNCHANGED <<variant, env, now, leaderboard, clients, inbox, broken,
                 cachedPayPalToken, paypalTokenExpiresAt, cachedToken,
                 tokenExpiresAt, started, subs, storeVars>>
  /\ reqs' = Retire(reqs)

\* The token endpoint answers getAccessToken: a failed request or a non-2xx
\* response makes it throw (the handler answers 500), a 2xx response is
\* stored and returned.
ZettleTokenResponse(k, resp) ==
  /\ counts[k].pc = "awaitToken"
  /\ LET x == Exchange(resp, cachedToken, tokenExpiresAt, now)
     IN /\ cachedToken' = x.token
        /\ tokenExpiresAt' = x.expiresAt
        /\ counts' = [RetireCounts(counts) EXCEPT ![k] =
                        IF x.threw
                          THEN [counts[k] EXCEPT !.pc = "done", !.tokenErr = TRUE,
                                                 !.status = 500]
                          ELSE [counts[k] EXCEPT !.pc = "awaitPurchases",
                                                 !.token = x.token,
                                                 !.tokenLeft = x.expiresAt - now]]
  /\ UNCHANGED <<variant, env, now, leaderboard, clients, inbox, broken,
                 cachedPayPalToken, paypalTokenExpiresAt, counted, started,
                 subs, storeVars>>
  /\ reqs' = Retire(reqs)

\* The purchases endpoint answers: res.send, or 500 from the catch block.
PurchasesResponse(k, resp) ==
  /\ counts[k].pc = "awaitPurchases"
  /\ counts' = [RetireCounts(counts) EXCEPT ![k] =
                  [counts[k] EXCEPT !.pc = "done",
                                    !.status = IF resp = "json" THEN 200 ELSE 500]]
  /\ UNCHANGED <<variant, env, now, leaderboard, clients, inbox, broken,
                 cachedPayPalToken, paypalTokenExpiresAt, cachedToken,
                 tokenExpiresAt, counted, started, subs, storeVars>>
  /\ reqs' = Retire(reqs)

\* The clock advances.
Tick ==
  /\ now < MaxTime
  /\ now' = now + TickMs
  /\ reqs' = Retire(reqs)
  /\ UNCHANGED <<variant, env, leaderboard, clients, inbox, broken,
                 cachedPayPalToken, paypalTokenExpiresAt, started, subs,
                 storeVars, cachedToken, tokenExpiresAt,
                 counted>>
  /\ counts' = RetireCounts(counts)

\* The webhook and the live feed.  GET /purchases-count shares no state with
\* them but the clock and the configuration; its runs are TokenSpec.
Next ==
  \/ \E r \in Reqs : \E req \in Requests : Receive(r, req)
  \/ \E r \in Reqs : \E resp \in TokenResponses : TokenResponse(r, resp)
  \/ \E r \in Reqs : \E resp \in VerifyResponses : VerifyResponse(r, resp)
  \/ Subscribe
  \/ \E c \in 1..MaxSubs : Close(c)
  \/ \E c \in 1..MaxSubs : Break(c)
  \/ Tick

Spec == Init /\ [][Next]_vars

\* Path-B runs: the handler with both paths receiving provider-B deliveries,
\* without the live feed.
PathBInit == Start({""}) /\ variant = "dual"

PathBNext ==
  \/ \E r \in Reqs :
       \E req \in {q \in PayPalRequests : q.body \in {T_bad, T_widget, T_unitonly}} :
         Receive(r, req)
  \/ \E r \in Reqs : \E resp \in TokenResponses : TokenResponse(r, resp)
  \/ \E r \in Reqs : \E resp \in VerifyResponses : VerifyResponse(r, resp)
  \/ Tick

PathBSpec == PathBInit /\ [][PathBNext]_vars

\* Path-A runs: the HMAC-only handler and the live feed; that handler never
\* reads the clock.
PathAInit == Start({"", "sec"}) /\ variant = "raw"

PathANext ==
  \/ \E r \in Reqs : \E req \in ZettleRequests : Receive(r, req)
  \/ Subscribe
  \/ \E c \in 1..MaxSubs : Close(c)

PathASpec == PathAInit /\ [][PathANext]_vars

\* Live-feed runs: each generation of the handler, configured so that its
\* verification can succeed, with subscribing, closing and failing
\* connections.
FeedDeployments ==
  {d \in Deployments({"sec"}) :
     d.variant = "dual" => /\ d.env.PAYPAL_WEBHOOK_ID # ""
                           /\ d.env.PAYPAL_CLIENT_SECRET # ""}

FeedRequests ==
  {[hdrs |-> [k \in PayPalHeaders |-> "x"], sig |-> NoSig, body |-> b] :
     b \in {T_widget}}
    \cup {[hdrs |-> <<>>, sig |-> SigHeader(HmacHex("sec", b)), body |-> b] :
            b \in {T_spec, T_strbad}}

FeedInit ==
  /\ Start({"sec"})
  /\ [variant |-> variant, env |-> env] \in FeedDeployments

FeedNext ==
  \/ \E r \in Reqs : \E req \in FeedRequests : Receive(r, req)
  \/ \E r \in Reqs : \E resp \in {t \in TokenResponses : t.ok} :
       TokenResponse(r, resp)
  \/ \E r \in Reqs : \E resp \in {v \in VerifyResponses : v.ok /\ v.json} :
       VerifyResponse(r, resp)
  \/ Subscribe
  \/ \E c \in 1..MaxSubs : Close(c)
  \/ \E c \in 1..MaxSubs : Break(c)

FeedSpec == FeedInit /\ [][FeedNext]_vars

\* Token runs: both token getters.  GET /purchases-count with and without
\* the provider-A credentials, provider-B deliveries with and without the
\* provider-B credentials, and the clock.  What follows the getter's return
\* is kept to one outcome: the purchases call succeeds, the verification
\* call reports FAILURE.
TokenDeployments ==
  {[variant |-> v,
    env |-> [ZETTLE_WEBHOOK_SIGNING_KEY |-> "", PAYPAL_WEBHOOK_ID |-> "WH-1",
             PAYPAL_CLIENT_ID |-> "id", PAYPAL_CLIENT_SECRET |-> c,
             ZETTLE_CLIENT_ID |-> c, ZETTLE_API_KEY |-> "zkey"]] :
     v \in {"raw", "dual"}, c \in {"", "pw"}}

TokenRequests ==
  {[hdrs |-> [k \in PayPalHeaders |-> "x"], sig |-> NoSig, body |-> T_widget]}

TokenInit == StartWith(TokenDeployments)

TokenNext ==
  \/ \E k \in Counts : PurchasesCount(k)
  \/ \E k \in Counts : \E resp \in TokenResponses : ZettleTokenResponse(k, resp)
  \/ \E k \in Counts : \E resp \in {"json"} : PurchasesResponse(k, resp)
  \/ \E r \in Reqs : \E req \in TokenRequests : Receive(r, req)
  \/ \E r \in Reqs : \E resp \in TokenResponses : TokenResponse(r, resp)
  \/ \E r \in Reqs :
       \E resp \in {v \in VerifyResponses : v.verification_status = "FAILURE"} :
         VerifyResponse(r, resp)
  \/ Tick

TokenSpec == TokenInit /\ [][TokenNext]_vars

\* Concurrency runs: the handler with both paths, configured for path B,
\* receiving provider-B deliveries that overlap at their awaited token and
\* verification calls, with the live feed and the clock.
RaceDeployments ==
  {d \in Deployments({""}) :
     /\ d.variant = "dual"
     /\ d.env.PAYPAL_WEBHOOK_ID # ""
     /\ d.env.PAYPAL_CLIENT_SECRET # ""}

RaceBodies == {T_widget, T_partial}

RaceRequests ==
  {[hdrs |-> [k \in PayPalHeaders |-> "x"], sig |-> NoSig, body |-> b] :
     b \in RaceBodies}

RaceInit == StartWith(RaceDeployments)

RaceNext ==
  \/ \E r \in Reqs : \E req \in RaceRequests : Receive(r, req)
  \/ \E r \in Reqs : \E resp \in {t \in TokenResponses : t.ok} :
       TokenResponse(r, resp)
  \/ \E r \in Reqs : \E resp \in {v \in VerifyResponses : v.ok /\ v.json} :
       VerifyResponse(r, resp)
  \/ Subscribe
  \/ Tick

RaceSpec == RaceInit /\ [][RaceNext]_vars

\* Verification runs: every secret, header set and signature value, without
\* the live feed and the clock.
SigInit == Start({""} \cup Secrets)

SigNext ==
  \/ \E r \in Reqs : \E req \in SigRequests : Receive(r, req)
  \/ \E r \in Reqs : \E resp \in TokenResponses : TokenResponse(r, resp)
  \/ \E r \in Reqs : \E resp \in VerifyResponses : VerifyResponse(r, resp)

SigSpec == SigInit /\ [][SigNext]_vars

(***************************************************************************)
(* Store properties                                                        *)
(***************************************************************************)
RECURSIVE SumFor(_, _)
SumFor(calls, name) ==
  IF calls = <<>> THEN 0
  ELSE (IF Head(calls).name = name THEN Head(calls).qty ELSE 0)
       + SumFor(Tail(calls), name)

NamesIn(lb) == {lb[i].name : i \in 1..Len(lb)}
CountOf(lb, name) ==
  IF name \in NamesIn(lb)
    THEN (lb[CHOOSE i \in 1..Len(lb) : lb[i].name = name]).count
    ELSE 0
PosOf(lb, name) == CHOOSE i \in 1..Len(lb) : lb[i].name = name
AsMap(lb) == {<<lb[i].name, lb[i].count>> : i \in 1..Len(lb)}

\* C7: after any sequence of bump calls the count of every name is the sum
\* of the quantities bumped under it (0 for a name never bumped), and every
\* permutation of the same calls yields the same name -> count mapping.
C7_BumpSumCommutes ==
  /\ NamesIn(leaderboard) = {applied[i].name : i \in 1..Len(applied)}
  /\ \A i \in 1..Len(leaderboard) : \A j \in 1..Len(leaderboard) :
       leaderboard[i].name = leaderboard[j].name => i = j
  /\ \A n \in NamesIn(leaderboard) \cup StoreNames :
       CountOf(leaderboard, n) = SumFor(applied, n)
  /\ Len(applied) <= MaxBumps + 1 =>
       \A p \in Permutations(1..Len(applied)) :
         AsMap(FoldBumps(<<>>, [i \in 1..Len(applied) |-> applied[p[i]]]))
           = AsMap(leaderboard)

C7_Witness ==
  /\ todo = <<>>
  /\ Len(applied) = 3
  /\ applied[1].name = applied[3].name
  /\ applied[2].name # applied[1].name
  /\ applied[1].qty # applied[3].qty
  /\ CountOf(leaderboard, applied[1].name) = applied[1].qty + applied[3].qty

\* C8: top20() returns at most 20 entries, each an entry of the Map, in
\* descending order of count, entries of equal count in the order of their
\* first insertion, and the call leaves the Map as it was.
C8_Top20Ordered ==
  /\ [](snapshot.called =>
         LET t == snapshot.top
             lb == snapshot.of
         IN /\ Len(t) <= 20
            /\ \A i \in 1..Len(t) :
                 /\ t[i].name \in NamesIn(lb)
                 /\ t[i].count = CountOf(lb, t[i].name)
            /\ \A i \in 1..Len(t) : \A j \in 1..Len(t) :
                 i < j =>
                   /\ t[i].name # t[j].name
                   /\ t[i].count >= t[j].count
                   /\ t[i].count = t[j].count =>
                        PosOf(lb, t[i].name) < PosOf(lb, t[j].name))
  /\ [][snapshot' # snapshot =>
          /\ snapshot'.of = leaderboard
          /\ leaderboard' = leaderboard]_vars

C8_Witness ==
  /\ snapshot.called
  /\ Len(snapshot.of) > 20
  /\ Len(snapshot.top) = 20
  /\ \E i \in 1..19 : snapshot.top[i].count = snapshot.top[i + 1].count
  /\ \E i \in 1..19 : snapshot.top[i].count > snapshot.top[i + 1].count
  /\ snapshot.of[1].count < snapshot.top[1].count

(***************************************************************************)
(* Webhook properties                                                      *)
(***************************************************************************)
Finished(r) == reqs[r].pc = "done"

\* The slot the next POST /webhook is handled in.
NewSlot ==
  CHOOSE r \in Reqs :
    /\ reqs[r].pc \in {"idle", "done"}
    /\ \A q \in 1..(r - 1) : reqs[q].pc \notin {"idle", "done"}

\* C1: a request bumps the leaderboard or publishes a leaderboard event only
\* if its signature verification succeeded; a request answered with a
\* status other than 200 bumps nothing and publishes nothing.
C1_OnlyVerifiedRequestsModify ==
  \A r \in Reqs :
    /\ (reqs[r].calls # <<>> \/ reqs[r].published) => reqs[r].verified
    /\ (Finished(r) /\ reqs[r].status # 200) =>
         (reqs[r].calls = <<>> /\ ~reqs[r].published)

\* C2: every finished request was answered exactly once, with 200, 401 or
\* 500, and with 200 whenever its verification succeeded.
C2_StatusIs200Or401Or500 ==
  \A r \in Reqs :
    Finished(r) =>
      /\ reqs[r].status \in {200, 401, 500}
      /\ reqs[r].verified => reqs[r].status = 200

\* C3: on path A a request is answered 401, with no HMAC computed, whenever
\* the signing secret is unset or the trimmed signature header is empty.
C3_GuardRejectsWith401 ==
  \A r \in Reqs :
    (/\ Finished(r)
     /\ reqs[r].route = "A"
     /\ (env.ZETTLE_WEBHOOK_SIGNING_KEY = "" \/ trim(reqs[r].sig.v) = <<>>))
      => (reqs[r].status = 401 /\ reqs[r].hmacs = 0)

\* The hex digests the header value is to be compared with.
ExpectedDigests(body) ==
  {HmacHex(env.ZETTLE_WEBHOOK_SIGNING_KEY, body),
   HmacHex(Base64Decode(env.ZETTLE_WEBHOOK_SIGNING_KEY), body)}

\* C4: on path A, with a secret configured and a non-empty signature header,
\* the request is answered 200 exactly when the lower-cased header value is
\* the hex HMAC of the body under the secret as text or base64-decoded, and
\* is answered 401 otherwise.
C4_AcceptedIffDigestMatches ==
  \A r \in Reqs :
    (/\ Finished(r)
     /\ reqs[r].route = "A"
     /\ env.ZETTLE_WEBHOOK_SIGNING_KEY # ""
     /\ trim(reqs[r].sig.v) # <<>>)
      => IF toLowerCase(trim(reqs[r].sig.v)) \in ExpectedDigests(reqs[r].body)
           THEN reqs[r].status = 200
           ELSE reqs[r].status = 401

AllFivePresent(hdrs) == PayPalHeaders \subseteq DOMAIN hdrs
AllFiveNonEmpty(hdrs) ==
  AllFivePresent(hdrs) /\ \A h \in PayPalHeaders : hdrs[h] # ""

\* C5 as stated: the handler with both paths takes path B exactly when the
\* request carries all five provider-B headers, whatever the configuration.
C5_RouteByHeadersAlone ==
  \A r \in Reqs :
    (variant = "dual" /\ reqs[r].pc # "idle") =>
      (reqs[r].route = "B" <=> AllFivePresent(reqs[r].hdrs))

\* C5: the handler with both paths takes path B exactly when the request
\* carries all five provider-B headers with non-empty values and the webhook
\* identifier is configured; every other request is handled by path A.
C5_RouteByHeadersAndWebhookId ==
  \A r \in Reqs :
    (variant = "dual" /\ reqs[r].pc # "idle") =>
      /\ reqs[r].route \in {"A", "B"}
      /\ reqs[r].route = "B" <=>
           (AllFiveNonEmpty(reqs[r].hdrs) /\ env.PAYPAL_WEBHOOK_ID # "")

C5_Witness ==
  \E r \in Reqs :
    /\ variant = "dual"
    /\ Finished(r)
    /\ AllFiveNonEmpty(reqs[r].hdrs)
    /\ env.PAYPAL_WEBHOOK_ID = ""
    /\ reqs[r].route = "A"
    /\ reqs[r].status = 401

\* C6: a path-B request is answered 200 and processed only when the
\* verification call returned a 2xx response whose verification_status is
\* "SUCCESS"; a non-2xx response or another status value gives 401, a failure
\* to get the token or to complete the call gives 500, and a request answered
\* 401 or 500 bumps nothing.
C6_PathBAcceptsOnlySuccess ==
  \A r \in Reqs :
    (Finished(r) /\ reqs[r].route = "B" /\ reqs[r].status # 400) =>
      /\ reqs[r].status = 200 <=> reqs[r].verifyRes = "SUCCESS"
      /\ reqs[r].verifyRes \in {"non2xx", "FAILURE"} => reqs[r].status = 401
      /\ (reqs[r].tokenErr \/ reqs[r].verifyRes \in {"neterr", "badjson"})
           => reqs[r].status = 500
      /\ reqs[r].status \in {200, 401, 500}
      /\ reqs[r].status # 200 => (reqs[r].calls = <<>> /\ ~reqs[r].published)

C6_Witness ==
  \E r \in Reqs :
    /\ Finished(r)
    /\ reqs[r].route = "B"
    /\ reqs[r].status = 200
    /\ reqs[r].verifyRes = "SUCCESS"
    /\ reqs[r].calls = <<[name |-> "Widget", qty |-> 3]>>
    /\ CountOf(leaderboard, "Widget") >= 3

\* C9: every quantity a webhook applies to the leaderboard is at least 1, so
\* no count is negative and no step lowers a count or removes an entry.
C9_QuantitiesAtLeastOne ==
  /\ \A r \in Reqs : \A i \in 1..Len(reqs[r].calls) : reqs[r].calls[i].qty >= 1
  /\ \A i \in 1..Len(leaderboard) : leaderboard[i].count >= 0

\* The items of payload.products of a body, when payload is an object
\* holding a products list.
ProductsListOf(text) ==
  LET parsed == JSONparse(text)
      products == Get(Get(parsed.v, "payload"), "products")
  IN IF parsed.ok /\ products.t = "arr" THEN products.a ELSE <<>>

HasField(p, k) == p.t = "obj" /\ k \in DOMAIN p.f /\ p.f[k] # Str("")

\* The name an item resolves to: name, else productName, else variantName,
\* else the sentinel.
ResolvedName(p, sentinel) ==
  IF HasField(p, "name") THEN p.f["name"].s
  ELSE IF HasField(p, "productName") THEN p.f["productName"].s
  ELSE IF HasField(p, "variantName") THEN p.f["variantName"].s
  ELSE sentinel

\* The quantity of an item: its quantity when that is a number other than
\* zero (given as a number or as a numeric string), else the default 1.
ResolvedQty(p) ==
  IF p.t = "obj" /\ "quantity" \in DOMAIN p.f
    THEN LET q == p.f["quantity"]
         IN IF q.t = "num" /\ q.n # 0 THEN q.n
            ELSE IF q = Str("3") THEN 3
            ELSE 1
    ELSE 1

RECURSIVE SumResolved(_, _, _)
SumResolved(items, name, sentinel) ==
  IF items = <<>> THEN 0
  ELSE (IF ResolvedName(Head(items), sentinel) = name
          THEN ResolvedQty(Head(items)) ELSE 0)
       + SumResolved(Tail(items), name, sentinel)

KnownNames == {"Coffee", "Tea", "Ukjent", "Ukjent produkt", "Widget", "order1",
               "PayPal salg"}

\* C10: a verified path-A webhook whose body has a products list under
\* payload.products raises the count of each name by the sum of the
\* quantities of the items resolving to it (name, else productName, else
\* variantName, else the sentinel; quantity defaulting to 1) and leaves every
\* other count as it was.
C10_PathAProductsBumped ==
  [][started' = started + 1 =>
       LET r == NewSlot
           items == ProductsListOf(reqs'[r].body)
       IN (/\ reqs'[r].route = "A"
           /\ reqs'[r].verified
           /\ items # <<>>)
            => \A n \in KnownNames \cup NamesIn(leaderboard') :
                 CountOf(leaderboard', n)
                   = CountOf(leaderboard, n)
                       + SumResolved(items, n, "Ukjent produkt")]_vars

C10_Witness ==
  \E r \in Reqs :
    /\ Finished(r)
    /\ reqs[r].route = "A"
    /\ reqs[r].verified
    /\ reqs[r].body = T_spec
    /\ leaderboard = <<[name |-> "Coffee", count |-> 2],
                       [name |-> "Tea", count |-> 1]>>


\* The items of resource.purchase_units[*].items[*] of a body, in order.
RECURSIVE ItemsOfUnits(_)
ItemsOfUnits(units) ==
  IF units = <<>> THEN <<>>
  ELSE (IF Get(Head(units), "items").t = "arr"
          THEN Get(Head(units), "items").a ELSE <<>>)
       \o ItemsOfUnits(Tail(units))

PurchasedItems(text) ==
  LET units == Get(Get(JSONparse(text).v, "resource"), "purchase_units")
  IN IF units.t = "arr" THEN ItemsOfUnits(units.a) ELSE <<>>

\* The key of the synthetic entry: resource.custom_id, else the sentinel.
SyntheticName(text) ==
  LET resource == Get(JSONparse(text).v, "resource")
  IN IF HasField(resource, "custom_id") THEN resource.f["custom_id"].s
     ELSE "PayPal salg"

\* C11: a verified path-B webhook makes one bump per item of
\* resource.purchase_units[*].items[*] (item name or the sentinel, item
\* quantity or 1); when there are no items at all (purchase_units missing,
\* empty, or made of units without an items list) it makes exactly one bump
\* of quantity 1 keyed by resource.custom_id or the fixed sentinel, and then
\* publishes the snapshot.
C11_PathBItemsOrSynthetic ==
  \A r \in Reqs :
    (Finished(r) /\ reqs[r].route = "B" /\ reqs[r].verified) =>
      LET items == PurchasedItems(reqs[r].body)
      IN IF items # <<>>
           THEN reqs[r].calls =
                  [i \in 1..Len(items) |->
                     [name |-> ResolvedName([items[i] EXCEPT !.f =
                                 [k \in DOMAIN items[i].f \cap {"name"} |->
                                    items[i].f[k]]], "Ukjent"),
                      qty |-> ResolvedQty(items[i])]]
           ELSE /\ reqs[r].calls =
                     <<[name |-> SyntheticName(reqs[r].body), qty |-> 1]>>
                /\ reqs[r].published


(***************************************************************************)
(* Live-feed properties                                                    *)
(***************************************************************************)
\* The handler of slot r ran to its end in this step and reached its
\* sendToClients call.
ProcessedNow(r) == reqs'[r].pc = "done" /\ reqs'[r].published

\* sendToClients is called in this step: by a webhook handler, or by
\* GET /events for its connected event.
PublishStep ==
  \/ \E r \in Reqs : ProcessedNow(r)
  \/ subs' # subs /\ variant # "dual"

LeaderboardFrames(frames) == SelectSeq(frames, LAMBDA e : e.type = "leaderboard")

\* C12: when a webhook has been processed, every connection in the active
\* set at that moment is written exactly one leaderboard event, whose top is
\* top20() of the leaderboard with that webhook's bumps applied; no other
\* connection is written anything.
C12_OneSnapshotPerWebhook ==
  [][\A r \in Reqs :
       ProcessedNow(r) =>
         /\ leaderboard' = FoldBumps(leaderboard, reqs'[r].calls)
         /\ DOMAIN inbox' = DOMAIN inbox
         /\ \A c \in DOMAIN inbox :
              IF c \in Range(clients)
                THEN inbox'[c] = Append(inbox[c],
                                        [type |-> "leaderboard",
                                         top |-> top20(leaderboard')])
                ELSE inbox'[c] = inbox[c]]_vars

C12_Witness ==
  \E r \in Reqs :
    /\ Finished(r)
    /\ reqs[r].published
    /\ reqs[r].calls # <<>>
    /\ Len(leaderboard) = 2
    /\ Len(clients) = 2
    /\ \A c \in Range(clients) :
         /\ inbox[c] # <<>>
         /\ inbox[c][Len(inbox[c])] =
              [type |-> "leaderboard", top |-> top20(leaderboard)]

\* C13: when sendToClients publishes an event, every connection of the
\* active set whose socket works is written the event whatever the state of
\* the others, and a connection whose write fails is no longer in the active
\* set afterwards.
C13_FailedWriteRemovesClient ==
  [][PublishStep =>
       /\ \A c \in Range(clients) \ broken :
            Len(inbox'[c]) = Len(inbox[c]) + 1
       /\ Range(clients') \cap broken = {}]_vars

\* C14: a connection is written to only while it is in the active set: a
\* new connection starts with no leaderboard event published before it
\* subscribed, and a connection that has left the set is never written again.
C14_WrittenOnlyWhileSubscribed ==
  [][\A c \in DOMAIN inbox' :
       /\ c \notin DOMAIN inbox => LeaderboardFrames(inbox'[c]) = <<>>
       /\ (c \in DOMAIN inbox /\ inbox'[c] # inbox[c]) =>
            (c \in Range(clients') /\ c \in Range(clients))
       /\ c \in DOMAIN inbox =>
            (Len(inbox'[c]) >= Len(inbox[c])
             /\ SubSeq(inbox'[c], 1, Len(inbox[c])) = inbox[c])]_vars

C14_Witness ==
  /\ Len(inbox) = 2
  /\ clients = <<2>>
  /\ leaderboard # <<>>
  /\ LeaderboardFrames(inbox[1]) = <<>>
  /\ Len(LeaderboardFrames(inbox[2])) = 2


(***************************************************************************)
(* Token cache properties                                                  *)
(***************************************************************************)
\* The slot the next GET /purchases-count is handled in.
NewCount ==
  CHOOSE k \in Counts :
    /\ counts[k].pc \in {"idle", "done"}
    /\ \A q \in 1..(k - 1) : counts[q].pc \notin {"idle", "done"}

\* The calls of the two token getters in progress or just finished: those
\* of getAccessToken, and those of getPayPalAccessToken made by path B once
\* the body has been parsed.
ZettleCalls == {k \in Counts : counts[k].pc # "idle"}
PayPalCalls ==
  {r \in Reqs : reqs[r].pc # "idle" /\ reqs[r].route = "B" /\ reqs[r].status # 400}

\* A cached token exists and now < expiresAt - 60 s.
WithinValidity(token, expiresAt) == token # Null /\ now + 60000 < expiresAt

\* A call that starts while the cache is fresh sends no token request,
\* returns the cached token and leaves the cache as it is; a call that starts
\* otherwise and does not fail at once sends one token request.
CallStartsRight(call, token, expiresAt, tokenAfter, expiresAtAfter) ==
  IF WithinValidity(token, expiresAt)
    THEN /\ call.fetches = 0
         /\ call.token = token
         /\ ~call.tokenErr
         /\ tokenAfter = token /\ expiresAtAfter = expiresAt
    ELSE /\ call.token = Null
         /\ ~call.tokenErr => (call.pc = "awaitToken" /\ call.fetches = 1)

\* A call whose token request was answered with success has sent that one
\* request, and the cache and the value returned are the token of the
\* response with the expiry now + expires_in.
ExchangeStoresRight(call, tokenAfter, expiresAtAfter) ==
  /\ call.fetches = 1
  /\ \E resp \in TokenResponses :
       /\ resp.ok
       /\ tokenAfter = Str(resp.access_token)
       /\ expiresAtAfter = now + resp.expires_in * 1000
  /\ call.token = tokenAfter

\* C15: a token getter called while a cached token exists and
\* now < expiresAt - 60 s sends no token request and returns the cached
\* token; called otherwise it sends exactly one token request, and stores and
\* returns the token of a successful response with expiry now + expires_in.
C15_OneExchangePerRefresh ==
  [][/\ counted' = counted + 1 =>
          CallStartsRight(counts'[NewCount], cachedToken, tokenExpiresAt,
                          cachedToken', tokenExpiresAt')
     /\ \A k \in Counts :
          /\ counts'[k].fetches <= 1
          /\ (counts[k].pc = "awaitToken" /\ counts'[k].pc = "awaitPurchases")
               => ExchangeStoresRight(counts'[k], cachedToken', tokenExpiresAt')
     /\ (started' = started + 1 /\ NewSlot \in PayPalCalls') =>
          CallStartsRight(reqs'[NewSlot], cachedPayPalToken,
                          paypalTokenExpiresAt, cachedPayPalToken',
                          paypalTokenExpiresAt')
     /\ \A r \in Reqs :
          /\ reqs'[r].fetches <= 1
          /\ (reqs[r].pc = "awaitToken" /\ reqs'[r].pc = "awaitVerify")
               => ExchangeStoresRight(reqs'[r], cachedPayPalToken',
                                      paypalTokenExpiresAt')]_vars

\* A second call within the margin is served from the cache, and a call
\* after the margin has passed sends a token request.
C15_Witness ==
  /\ \E k \in Counts :
       /\ counts[k].pc = "awaitPurchases"
       /\ counts[k].fetches = 0
       /\ counts[k].token = Str("tok1")
  /\ now = 60000
  /\ cachedPayPalToken = Str("tok1")
  /\ paypalTokenExpiresAt = 120000
  /\ \E r \in Reqs : reqs[r].pc = "awaitToken" /\ reqs[r].fetches = 1

\* C16: whenever a token getter returns a token, now < expiresAt - 60 s
\* holds for that token at the return, also right after a refresh.
C16_NeverReturnedInsideMargin ==
  /\ \A k \in ZettleCalls :
       counts[k].token # Null => counts[k].tokenLeft > SafetyMarginMs
  /\ \A r \in PayPalCalls :
       reqs[r].token # Null => reqs[r].tokenLeft > SafetyMarginMs

\* C17: when the token request fails or is answered with a non-success
\* response, the getter throws (the handler answers 500) and the cached
\* token and its expiry are what they were before the call.
C17_FailedExchangeKeepsCache ==
  [][/\ \A k \in Counts :
          (counts[k].pc = "awaitToken" /\ counts'[k].pc = "done") =>
            /\ counts'[k].tokenErr /\ counts'[k].status = 500
            /\ counts'[k].token = Null
            /\ cachedToken' = cachedToken
            /\ tokenExpiresAt' = tokenExpiresAt
     /\ \A r \in Reqs :
          (reqs[r].pc = "awaitToken" /\ reqs'[r].pc = "done") =>
            /\ reqs'[r].tokenErr /\ reqs'[r].status = 500
            /\ reqs'[r].token = Null
            /\ cachedPayPalToken' = cachedPayPalToken
            /\ paypalTokenExpiresAt' = paypalTokenExpiresAt]_vars

\* getAccessToken has just failed on a stale, non-empty cache, which is kept,
\* while a call of getPayPalAccessToken awaits its token request on a stale
\* cache of its own.
C17_Witness ==
  /\ \E k \in Counts : counts[k].tokenErr /\ counts[k].fetches = 1
  /\ cachedToken = Str("tok1") /\ tokenExpiresAt = 30000
  /\ \E r \in Reqs : reqs[r].pc = "awaitToken" /\ reqs[r].fetches = 1
  /\ cachedPayPalToken = Str("tok1") /\ paypalTokenExpiresAt = 30000

\* C18: a getter call that needs a refresh while a credential of its
\* provider is missing fails without having sent a token request.
C18_MissingCredentialsFailFast ==
  /\ \A k \in ZettleCalls :
       (/\ env.ZETTLE_CLIENT_ID = "" \/ env.ZETTLE_API_KEY = ""
        /\ ~(counts[k].fetches = 0 /\ counts[k].token # Null))
         => (counts[k].fetches = 0 /\ counts[k].tokenErr)
  /\ \A r \in PayPalCalls :
       (/\ env.PAYPAL_CLIENT_ID = "" \/ env.PAYPAL_CLIENT_SECRET = ""
        /\ ~(reqs[r].fetches = 0 /\ reqs[r].token # Null))
         => (reqs[r].fetches = 0 /\ reqs[r].tokenErr)


(***************************************************************************)
(* Parse properties                                                        *)
(***************************************************************************)
\* The payload field of a body, when the body is JSON.
PayloadOf(text) ==
  IF JSONparse(text).ok THEN Get(JSONparse(text).v, "payload") ELSE Undef

\* The body is not JSON, or its payload is a string that is not JSON.
ParseFails(text) ==
  \/ ~JSONparse(text).ok
  \/ PayloadOf(text).t = "str" /\ ~JSONparse(PayloadOf(text).s).ok

\* The payload is a string holding JSON.
PayloadIsJSONText(text) ==
  PayloadOf(text).t = "str" /\ JSONparse(PayloadOf(text).s).ok

\* The products list of the payload decoded from its string.
InnerProducts(text) ==
  LET products == Get(JSONparse(PayloadOf(text).s).v, "products")
  IN IF products.t = "arr" THEN products.a ELSE <<>>

\* C19: a verified path-A request whose body is not JSON, or whose payload
\* is a string that is not JSON, keeps its 200 and has no effect: no bump,
\* leaderboard and client set unchanged, nothing written to any connection.
C19_ParseFailureHasNoEffect ==
  [][started' = started + 1 =>
       LET r == NewSlot
       IN (/\ reqs'[r].route = "A"
           /\ reqs'[r].verified
           /\ ParseFails(reqs'[r].body))
            => /\ reqs'[r].status = 200
               /\ reqs'[r].calls = <<>>
               /\ ~reqs'[r].published
               /\ leaderboard' = leaderboard
               /\ clients' = clients
               /\ inbox' = inbox]_vars

C19_Witness ==
  \E r \in Reqs :
    /\ Finished(r)
    /\ reqs[r].route = "A"
    /\ reqs[r].verified
    /\ reqs[r].body = T_strbad
    /\ reqs[r].status = 200
    /\ leaderboard = <<[name |-> "Coffee", count |-> 2],
                       [name |-> "Tea", count |-> 1]>>
    /\ clients # <<>>
    /\ \A c \in Range(clients) : Len(LeaderboardFrames(inbox[c])) = 1

\* C20: a verified path-A request whose payload is a string holding JSON is
\* processed as the same payload sent as an object: every count rises by the
\* summed quantities of the decoded products resolving to its name, and the
\* snapshot is published.
C20_StringPayloadDecoded ==
  [][started' = started + 1 =>
       LET r == NewSlot
       IN (/\ reqs'[r].route = "A"
           /\ reqs'[r].verified
           /\ PayloadIsJSONText(reqs'[r].body))
            => /\ reqs'[r].published
               /\ Len(reqs'[r].calls) = Len(InnerProducts(reqs'[r].body))
               /\ \A n \in KnownNames \cup NamesIn(leaderboard') :
                    CountOf(leaderboard', n)
                      = CountOf(leaderboard, n)
                          + SumResolved(InnerProducts(reqs'[r].body), n,
                                        "Ukjent produkt")]_vars

\* A request with a string payload has added Tea: 3 on top of the Tea: 3 of
\* an earlier request.
C20_Witness ==
  /\ started = 2
  /\ leaderboard = <<[name |-> "Tea", count |-> 6]>>
  /\ \E r \in Reqs :
       /\ Finished(r)
       /\ reqs[r].verified
       /\ reqs[r].body = T_str
       /\ reqs[r].calls = <<[name |-> "Tea", qty |-> 3]>>


(***************************************************************************)
(* Concurrency properties                                                  *)
(***************************************************************************)
\* The bumps of a whole path-B request: one per item of its purchase units,
\* or the synthetic one when it has no item.
WholeBumps(text) ==
  LET items == PurchasedItems(text)
  IN IF items # <<>>
       THEN [i \in 1..Len(items) |->
               [name |-> IF HasField(items[i], "name")
                           THEN items[i].f["name"].s ELSE "Ukjent",
                qty |-> ResolvedQty(items[i])]]
       ELSE <<[name |-> SyntheticName(text), qty |-> 1]>>

\* The leaderboard built by whole requests, given by their bodies in order.
RECURSIVE WholeBoard(_)
WholeBoard(texts) ==
  IF texts = <<>> THEN <<>>
  ELSE FoldBumps(WholeBoard(SubSeq(texts, 1, Len(texts) - 1)),
                 WholeBumps(texts[Len(texts)]))

\* The snapshots of the leaderboards built by whole requests only.
WholeSnapshots ==
  {top20(WholeBoard(texts)) :
     texts \in UNION {[1..n -> RaceBodies] : n \in 0..MaxStarted}}

\* C21: however the requests interleave, every leaderboard snapshot written
\* to a connection is top20() of a leaderboard made of the bumps of whole
\* requests, never of one holding only part of a request's bumps.
C21_SnapshotsOfWholeRequests ==
  \A c \in DOMAIN inbox : \A i \in 1..Len(inbox[c]) :
    inbox[c][i].type = "leaderboard" => inbox[c][i].top \in WholeSnapshots

====
